---- MODULE Spec2Model ----
(***************************************************************************)
(* A model of deep_qa/layers/entailment_models.py: the two input combiners *)
(* (MemoryOnlyCombiner, HeuristicMatchingCombiner) and the three           *)
(* entailment classifiers (TrueFalseEntailmentModel,                       *)
(* QuestionAnswerEntailmentModel, MultipleChoiceEntailmentModel).          *)
(*                                                                         *)
(* Tensors are nested sequences of integers: a (batch, width) tensor is a  *)
(* sequence of rows, a (batch, options, width) tensor a sequence of        *)
(* sequences of rows.  Dictionaries (kwargs, layer configurations) are     *)
(* functions from strings.                                                 *)
(***************************************************************************)
EXTENDS Integers, Sequences, FiniteSets, TLC

---------------------------------------------------------------------------
(* Bounds of the model.                                                    *)

\* encoding_dim of a combiner ranges over 1..MaxEncodingDim
MaxEncodingDim == 3
\* batch sizes range over 1..MaxBatch
MaxBatch == 2
\* answer options range over 1..MaxOptions
MaxOptions == 2
\* combined-input width, hidden_layer_width and answer_dim range over 1..MaxDim
MaxDim == 2
\* num_hidden_layers ranges over 0..MaxHidden
MaxHidden == 1
\* tensors of at most this many cells are enumerated exhaustively, larger
\* ones are drawn from the patterns below
ExhaustiveCells == 4
\* softmax numerators are fixed-point numbers with this many fraction bits
SoftmaxBits == 16
\* sigmoid values are fixed-point numbers k / SigmoidScale
SigmoidScale == 8

\* values of the cells of a combiner or classifier input
InVals == {0, 1}
\* values of the cells of an encoded answer
AnsVals == {-1, 1, 2}
\* seeds of the pattern tensors
PatternSeeds == {0, 1}
\* seeds of the weights a Dense layer is built with
WeightSeeds == {0, 1}

---------------------------------------------------------------------------
(* Arithmetic and tensor helpers.                                          *)

Min(a, b) == IF a <= b THEN a ELSE b

Max(a, b) == IF a >= b THEN a ELSE b

RECURSIVE SumSeq(_)
SumSeq(s) == IF Len(s) = 0 THEN 0 ELSE Head(s) + SumSeq(Tail(s))

RECURSIVE MaxSeq(_)
MaxSeq(s) == IF Len(s) = 1 THEN s[1] ELSE Max(Head(s), MaxSeq(Tail(s)))

\* the dot product of two vectors of one width
Dot(u, v) == SumSeq([i \in 1..Len(u) |-> u[i] * v[i]])

\* Python's s[a:b] on a sequence, a and b >= 0: out-of-range indices are clamped
Slice(s, a, b) ==
    LET lo == Min(a, Len(s))
        hi == Min(b, Len(s))
    IN  [i \in 1..Max(hi - lo, 0) |-> s[lo + i]]

Rows(W, V) == [1..W -> V]

PatternTensors2(B, W) ==
    {[b \in 1..B |-> [f \in 1..W |-> (s + b + f) % 2]] : s \in PatternSeeds}

\* the (batch, width) inputs: every tensor when `all` or when it is small
Tensors2(B, W, all) ==
    IF all \/ B * W <= ExhaustiveCells
    THEN [1..B -> Rows(W, InVals)]
    ELSE PatternTensors2(B, W)

---------------------------------------------------------------------------
(* The combiners.                                                          *)

CombinerKinds == {"memory_only", "heuristic_matching"}

CombinerNames == {"entailment_combiner", "my_combiner"}

\* the keyword arguments a combiner is constructed with, passed on to the
\* base layer
CombinerKwargs == {<<>>, [trainable |-> FALSE]}

\* keras Layer.__init__(name=name, **kwargs) followed by the combiner's own
\* assignment of encoding_dim
CombinerInit(kind, encoding_dim, name, kwargs) ==
    [kind |-> kind,
     name |-> name,
     trainable |-> IF "trainable" \in DOMAIN kwargs THEN kwargs["trainable"] ELSE TRUE,
     encoding_dim |-> encoding_dim]

\* x[:, :d], x[:, d:2*d], x[:, 2*d:]
split_combiner_inputs(x, encoding_dim) ==
    [sentence_encoding  |-> [b \in 1..Len(x) |-> Slice(x[b], 0, encoding_dim)],
     current_memory     |-> [b \in 1..Len(x) |-> Slice(x[b], encoding_dim, 2 * encoding_dim)],
     attended_knowledge |-> [b \in 1..Len(x) |-> Slice(x[b], 2 * encoding_dim, Len(x[b]))]]

\* the widths an elementwise operation on (batch, wa) and (batch, wb) tensors
\* can produce: equal widths combine; a width of 1 is broadcast by the
\* tensorflow backend and refused by the theano backend (the slices are not
\* marked broadcastable); anything else is refused by both
ElementwiseWidths(wa, wb) ==
    IF wa = wb THEN {wa}
    ELSE IF wa = 1 THEN {wb, -1}
    ELSE IF wb = 1 THEN {wa, -1}
    ELSE {-1}

\* the cell i of a row, a row of width 1 being broadcast
Cell(row, i) == row[IF Len(row) = 1 THEN 1 ELSE i]

\* a * b on two (batch, width) tensors, the result of width w
ElementwiseProduct(a, b, w) ==
    [r \in 1..Len(a) |-> [i \in 1..w |-> Cell(a[r], i) * Cell(b[r], i)]]

\* a - b on two (batch, width) tensors, the result of width w
ElementwiseDifference(a, b, w) ==
    [r \in 1..Len(a) |-> [i \in 1..w |-> Cell(a[r], i) - Cell(b[r], i)]]

\* K.concatenate(tensors) along the last axis
Concatenate4(a, b, c, d) == [r \in 1..Len(a) |-> a[r] \o b[r] \o c[r] \o d[r]]

Returned(out) == [status |-> "returned", out |-> out]

Raised(error) == [status |-> "raised", error |-> error]

\* MemoryOnlyCall with the slices confused: the sentence encoding is returned
MemoryOnlyCallSentence(layer, x) ==
    {Returned(split_combiner_inputs(x, layer.encoding_dim).sentence_encoding)}

\* MemoryOnlyCombiner.call: the set of its possible outcomes
MemoryOnlyCall(layer, x) ==
    {Returned(split_combiner_inputs(x, layer.encoding_dim).current_memory)}

\* HeuristicCall with the difference taken the other way round
HeuristicCallSwappedDiff(layer, x) ==
    LET parts == split_combiner_inputs(x, layer.encoding_dim)
        s == parts.sentence_encoding
        m == parts.current_memory
    IN  {IF w < 0 THEN Raised("shape mismatch")
         ELSE Returned(Concatenate4(s, m, ElementwiseProduct(s, m, w),
                                    ElementwiseDifference(m, s, w)))
         : w \in ElementwiseWidths(Len(s[1]), Len(m[1]))}

\* HeuristicMatchingCombiner.call: the set of its possible outcomes
HeuristicCall(layer, x) ==
    LET parts == split_combiner_inputs(x, layer.encoding_dim)
        sentence_encoding == parts.sentence_encoding
        current_memory == parts.current_memory
    IN  {IF w < 0 THEN Raised("shape mismatch")
         ELSE Returned(Concatenate4(sentence_encoding,
                                    current_memory,
                                    ElementwiseProduct(sentence_encoding, current_memory, w),
                                    ElementwiseDifference(sentence_encoding, current_memory, w)))
         : w \in ElementwiseWidths(Len(sentence_encoding[1]), Len(current_memory[1]))}

CombinerCall(layer, x) ==
    IF layer.kind = "memory_only" THEN MemoryOnlyCall(layer, x) ELSE HeuristicCall(layer, x)

\* get_output_shape_for(input_shape)[1]
OutputWidthFor(layer) ==
    IF layer.kind = "memory_only" THEN layer.encoding_dim ELSE layer.encoding_dim * 4

\* keras Layer.get_config of a layer built without an input shape
BaseGetConfig(layer) == [name |-> layer.name, trainable |-> layer.trainable]

\* dict.update: the keys of u overwrite those of d
DictUpdate(d, u) ==
    [k \in DOMAIN d \cup DOMAIN u |-> IF k \in DOMAIN u THEN u[k] ELSE d[k]]

\* GetConfig without the combiner's own key
GetConfigBaseOnly(layer) == BaseGetConfig(layer)

\* MemoryOnlyCombiner.get_config and HeuristicMatchingCombiner.get_config
GetConfig(layer) ==
    LET base_config == BaseGetConfig(layer)
        config == [encoding_dim |-> layer.encoding_dim]
    IN  DictUpdate(config, base_config)

\* keras Layer.from_config: cls(**config)
FromConfig(kind, config) ==
    CombinerInit(kind, config["encoding_dim"], config["name"],
                 [k \in DOMAIN config \ {"encoding_dim", "name"} |-> config[k]])

---------------------------------------------------------------------------
(* Dense layers and the keras backend functions the classifiers use.       *)

Activations == {"relu", "linear"}

\* Dense(output_dim=..., activation=..., name=...); index is the %d of a
\* hidden layer's name
Dense(output_dim, activation, name, index) ==
    [output_dim |-> output_dim, activation |-> activation, name |-> name, index |-> index]

\* The weights the framework builds a Dense layer with are not fixed by this
\* code: they are drawn from a family indexed by the seed.  Two different
\* layers of one classifier get different weights, one layer always the same.
LayerSalt(layer) == IF layer.name = "entailment_hidden_layer" THEN layer.index + 1 ELSE 0

Kernel(seed, layer, i, j) == ((seed + LayerSalt(layer) + i + 2 * j) % 3) - 1

Bias(seed, layer, j) == (seed + LayerSalt(layer) + j) % 2

\* x . W + b for one row
DenseAffine(seed, layer, row) ==
    [j \in 1..layer.output_dim |->
        SumSeq([i \in 1..Len(row) |-> row[i] * Kernel(seed, layer, i, j)])
            + Bias(seed, layer, j)]

Pow2(n) == 2 ^ n

\* sigmoid(z) = 1 / (1 + b^-z), rounded down to the grid k / SigmoidScale
\* (with b = 2, and saturating as floating point does)
SigmoidFix(z) ==
    IF z >= 0
    THEN (SigmoidScale * Pow2(Min(z, 20))) \div (1 + Pow2(Min(z, 20)))
    ELSE SigmoidScale \div (1 + Pow2(Min(-z, 20)))

\* K.softmax along the last axis, the way the backends compute it:
\* b^(x_i - max x) over the sum of these, each numerator a fixed-point number
\* with SoftmaxBits fraction bits that underflows to 0 (with b = 2).  A
\* probability vector is the numerators and their common denominator.
Softmax(logits) ==
    LET mx == MaxSeq(logits)
        num == [i \in 1..Len(logits) |->
                   IF mx - logits[i] > SoftmaxBits THEN 0
                   ELSE Pow2(SoftmaxBits - (mx - logits[i]))]
    IN  [num |-> num, den |-> SumSeq(num)]

\* keras activations.get(name) applied to one row of pre-activations
Activation(name, v) ==
    CASE name = "relu"    -> [j \in 1..Len(v) |-> Max(v[j], 0)]
      [] name = "linear"  -> v
      [] name = "sigmoid" -> [j \in 1..Len(v) |-> SigmoidFix(v[j])]
      [] name = "softmax" -> Softmax(v)

\* layer(x) on a (batch, width) input
DenseCall(seed, layer, x) ==
    [b \in 1..Len(x) |-> Activation(layer.activation, DenseAffine(seed, layer, x[b]))]

\* TimeDistributed with weights of its own for every option
TimeDistributedPerOption(seed, layer, x) ==
    [b \in 1..Len(x) |->
        [o \in 1..Len(x[b]) |->
            Activation(layer.activation, DenseAffine(seed + o, layer, x[b][o]))]]

\* TimeDistributed(layer)(x) on a (batch, options, width) input: the one
\* layer applied to every option
TimeDistributed(seed, layer, x) ==
    [b \in 1..Len(x) |-> DenseCall(seed, layer, x[b])]

\* for layer in self.hidden_layers: hidden_input = layer(hidden_input)
RECURSIVE ApplyLayers(_, _, _)
ApplyLayers(seed, layers, x) ==
    IF Len(layers) = 0 THEN x
    ELSE ApplyLayers(seed, Tail(layers), DenseCall(seed, Head(layers), x))

\* for layer in self.hidden_layers: hidden_input = TimeDistributed(layer)(hidden_input)
RECURSIVE ApplyTimeDistributed(_, _, _)
ApplyTimeDistributed(seed, layers, x) ==
    IF Len(layers) = 0 THEN x
    ELSE ApplyTimeDistributed(seed, Tail(layers), TimeDistributed(seed, Head(layers), x))

---------------------------------------------------------------------------
(* Construction of the classifiers.                                        *)

ClassifierKinds == {"true_false_mlp", "question_answer_mlp", "multiple_choice_mlp"}

ConfigKeys == {"num_hidden_layers", "hidden_layer_width", "hidden_layer_activation",
               "answer_dim"}

\* the keyword dictionaries a classifier is constructed from: any of the
\* keys may be absent
KwargsSets ==
    {[k \in keys |-> full[k]] :
        full \in [num_hidden_layers : 0..MaxHidden,
                  hidden_layer_width : 1..MaxDim,
                  hidden_layer_activation : Activations,
                  answer_dim : 1..MaxDim],
        keys \in SUBSET ConfigKeys}

None == [none |-> TRUE]

NoModel == [kind |-> "none"]

\* kwargs.get(key, default) in place of kwargs[key]
SubscriptOrDefault(kwargs, key) ==
    IF key \in DOMAIN kwargs THEN [raised |-> FALSE, value |-> kwargs[key]]
    ELSE [raised |-> FALSE,
          value |-> IF key = "hidden_layer_activation" THEN "relu" ELSE 1]

\* kwargs[key]: a KeyError when the key is absent
Subscript(kwargs, key) ==
    IF key \in DOMAIN kwargs THEN [raised |-> FALSE, value |-> kwargs[key]]
    ELSE [raised |-> TRUE, value |-> key]

\* the first of the subscripts kwargs[keys[1]], kwargs[keys[2]], ... that raises
RECURSIVE FirstRaise(_, _)
FirstRaise(kwargs, keys) ==
    IF Len(keys) = 0 THEN [raised |-> FALSE]
    ELSE IF Subscript(kwargs, Head(keys)).raised
         THEN [raised |-> TRUE, key |-> Head(keys)]
         ELSE FirstRaise(kwargs, Tail(keys))

\* the outcome of a constructor that raised before it reached _init_layers
Failed(kind, error, key) ==
    [kind |-> kind, error |-> error, key |-> key, init_layers_ran |-> FALSE,
     object |-> NoModel]

Constructed(self) ==
    [kind |-> self.kind, error |-> "none", key |-> "", init_layers_ran |-> TRUE,
     object |-> self]

\* [Dense(hidden_layer_width, hidden_layer_activation,
\*        'entailment_hidden_layer_%d' % i) for i in range(num_hidden_layers)]
HiddenLayers(self) ==
    [n \in 1..self.num_hidden_layers |->
        Dense(self.hidden_layer_width, self.hidden_layer_activation,
              "entailment_hidden_layer", n - 1)]

\* TrueFalseInitLayers with a score layer of one unit
TrueFalseInitLayersOneUnit(self) ==
    [self EXCEPT !.hidden_layers = HiddenLayers(self)]
        @@ [score_layer |-> Dense(1, "softmax", "entailment_softmax", 0)]

\* TrueFalseEntailmentModel._init_layers (score_layer is a new attribute:
\* __init__ presets softmax_layer, which stays None)
TrueFalseInitLayers(self) ==
    [self EXCEPT !.hidden_layers = HiddenLayers(self)]
        @@ [score_layer |-> Dense(2, "softmax", "entailment_softmax", 0)]

\* TrueFalseEntailmentModel.__init__(**kwargs); seed indexes the weights the
\* framework will build the layers with
TrueFalseInit(kwargs, seed) ==
    LET r == FirstRaise(kwargs, <<"num_hidden_layers", "hidden_layer_width",
                                  "hidden_layer_activation">>)
    IN  IF r.raised THEN Failed("true_false_mlp", "KeyError", r.key)
        ELSE Constructed(TrueFalseInitLayers(
                [kind |-> "true_false_mlp",
                 num_hidden_layers |-> Subscript(kwargs, "num_hidden_layers").value,
                 hidden_layer_width |-> Subscript(kwargs, "hidden_layer_width").value,
                 hidden_layer_activation |->
                     Subscript(kwargs, "hidden_layer_activation").value,
                 hidden_layers |-> None,
                 softmax_layer |-> None,
                 seed |-> seed]))

\* QuestionAnswerEntailmentModel._init_layers
QuestionAnswerInitLayers(self) ==
    [self EXCEPT !.hidden_layers = HiddenLayers(self),
                 !.projection_layer =
                     Dense(self.answer_dim, "linear", "entailment_projection", 0)]

\* QuestionAnswerEntailmentModel.__init__(**kwargs)
QuestionAnswerInit(kwargs, seed) ==
    LET r == FirstRaise(kwargs, <<"num_hidden_layers", "hidden_layer_width",
                                  "hidden_layer_activation", "answer_dim">>)
    IN  IF r.raised THEN Failed("question_answer_mlp", "KeyError", r.key)
        ELSE Constructed(QuestionAnswerInitLayers(
                [kind |-> "question_answer_mlp",
                 num_hidden_layers |-> Subscript(kwargs, "num_hidden_layers").value,
                 hidden_layer_width |-> Subscript(kwargs, "hidden_layer_width").value,
                 hidden_layer_activation |->
                     Subscript(kwargs, "hidden_layer_activation").value,
                 answer_dim |-> Subscript(kwargs, "answer_dim").value,
                 hidden_layers |-> None,
                 softmax_layer |-> None,
                 projection_layer |-> None,
                 tile_layer |-> None,
                 similarity_layer |-> None,
                 seed |-> seed]))

\* MultipleChoiceEntailmentModel._init_layers
MultipleChoiceInitLayers(self) ==
    [self EXCEPT !.hidden_layers = HiddenLayers(self),
                 !.score_layer = Dense(1, "sigmoid", "entailment_score", 0)]

MultipleChoiceParameters ==
    {"num_hidden_layers", "hidden_layer_width", "hidden_layer_activation"}

\* MultipleChoiceEntailmentModel.__init__(num_hidden_layers, hidden_layer_width,
\* hidden_layer_activation) called with **kwargs: Python binds the arguments
\* before the body runs, and raises a TypeError for a missing or an
\* unexpected one
MultipleChoiceInit(kwargs, seed) ==
    IF DOMAIN kwargs # MultipleChoiceParameters
    THEN Failed("multiple_choice_mlp", "TypeError",
                CHOOSE k \in (DOMAIN kwargs \ MultipleChoiceParameters)
                             \cup (MultipleChoiceParameters \ DOMAIN kwargs) : TRUE)
    ELSE Constructed(MultipleChoiceInitLayers(
            [kind |-> "multiple_choice_mlp",
             num_hidden_layers |-> kwargs["num_hidden_layers"],
             hidden_layer_width |-> kwargs["hidden_layer_width"],
             hidden_layer_activation |-> kwargs["hidden_layer_activation"],
             hidden_layers |-> None,
             score_layer |-> None,
             seed |-> seed]))

\* entailment_models[kind](**kwargs)
Construct(kind, kwargs, seed) ==
    CASE kind = "true_false_mlp"      -> TrueFalseInit(kwargs, seed)
      [] kind = "question_answer_mlp" -> QuestionAnswerInit(kwargs, seed)
      [] kind = "multiple_choice_mlp" -> MultipleChoiceInit(kwargs, seed)

---------------------------------------------------------------------------
(* The classifiers' forward passes.                                        *)

\* TrueFalseEntailmentModel.classify(combined_input)
TrueFalseClassify(self, combined_input) ==
    LET hidden_input == ApplyLayers(self.seed, self.hidden_layers, combined_input)
        softmax_output == DenseCall(self.seed, self.score_layer, hidden_input)
    IN  [scores |-> [b \in 1..Len(hidden_input) |->
                        DenseAffine(self.seed, self.score_layer, hidden_input[b])],
         output |-> softmax_output]

\* K.squeeze(x, axis=2) on a (batch, options, 1) tensor
Squeeze2(x) == [b \in 1..Len(x) |-> [o \in 1..Len(x[b]) |-> x[b][o][1]]]

\* MultipleChoiceEntailmentModel.classify(combined_input)
MultipleChoiceClassify(self, combined_input) ==
    LET hidden_input == ApplyTimeDistributed(self.seed, self.hidden_layers, combined_input)
        scores == TimeDistributed(self.seed, self.score_layer, hidden_input)
        squeezed == Squeeze2(scores)
    IN  [scores |-> squeezed,
         output |-> [b \in 1..Len(squeezed) |-> Softmax(squeezed[b])]]

\* K.permute_dimensions(x, [1, 0, 2]) on a tensor whose first two axes have
\* lengths n0 and n1
Permute102(x, n0, n1) == [i \in 1..n1 |-> [j \in 1..n0 |-> x[j][i]]]

OnesLike(x) == [b \in 1..Len(x) |-> [o \in 1..Len(x[b]) |-> [a \in 1..Len(x[b][o]) |-> 1]]]

\* _tile_projection without the permutations: the projection is laid along
\* the options axis
TileProjectionNoPermute(answers, projected) ==
    [b \in 1..Len(answers) |->
        [o \in 1..Len(answers[b]) |->
            [a \in 1..Len(answers[b][o]) |-> 1 * projected[Min(o, Len(projected))][a]]]]

\* QuestionAnswerEntailmentModel._tile_projection([answers, projected]):
\* ones * projected broadcasts the (batch, answer_dim) projection over the
\* leading (options) axis of the permuted ones
_tile_projection(answers, projected) ==
    LET B == Len(answers)
        O == Len(answers[1])
        ones == Permute102(OnesLike(answers), B, O)
        product == [o \in 1..O |-> [b \in 1..B |->
                       [a \in 1..Len(ones[o][b]) |-> ones[o][b][a] * projected[b][a]]]]
    IN  Permute102(product, O, B)

\* AnswerSimilarity with a sum in place of the product
AnswerSimilaritySum(tiled, answers) ==
    [b \in 1..Len(tiled) |->
        [o \in 1..Len(tiled[b]) |->
            SumSeq([a \in 1..Len(tiled[b][o]) |-> tiled[b][o][a] + answers[b][o][a]])]]

\* K.sum(x[0] * x[1], axis=2)
AnswerSimilarity(tiled, answers) ==
    [b \in 1..Len(tiled) |->
        [o \in 1..Len(tiled[b]) |->
            SumSeq([a \in 1..Len(tiled[b][o]) |-> tiled[b][o][a] * answers[b][o][a]])]]

\* QuestionAnswerClassify returning the raw similarity scores
QuestionAnswerClassifyNoSoftmax(self, combined_input, encoded_answers) ==
    LET hidden_input == ApplyLayers(self.seed, self.hidden_layers, combined_input)
        projected_input == DenseCall(self.seed, self.projection_layer, hidden_input)
        scores == AnswerSimilarity(_tile_projection(encoded_answers, projected_input),
                                   encoded_answers)
    IN  [projected |-> projected_input,
         scores |-> scores,
         output |-> [b \in 1..Len(scores) |-> [num |-> scores[b], den |-> 1]]]

\* QuestionAnswerEntailmentModel.classify(combined_input, encoded_answers)
QuestionAnswerClassify(self, combined_input, encoded_answers) ==
    LET hidden_input == ApplyLayers(self.seed, self.hidden_layers, combined_input)
        projected_input == DenseCall(self.seed, self.projection_layer, hidden_input)
        tiled_projected_input == _tile_projection(encoded_answers, projected_input)
        scores == AnswerSimilarity(tiled_projected_input, encoded_answers)
    IN  [projected |-> projected_input,
         scores |-> scores,
         output |-> [b \in 1..Len(scores) |-> Softmax(scores[b])]]

\* the (batch, options, width) inputs of the multiple-choice classifier
OptionTensors(B, O, F) ==
    IF B * O * F <= ExhaustiveCells
    THEN [1..B -> [1..O -> Rows(F, InVals)]]
    ELSE {[b \in 1..B |-> [o \in 1..O |-> [f \in 1..F |-> (s + b + o * f) % 2]]]
          : s \in PatternSeeds}

AnsValAt(n) == CASE n % 3 = 0 -> -1 [] n % 3 = 1 -> 1 [] OTHER -> 2

\* the (batch, options, answer_dim) encoded answers
AnswerTensors(B, O, A) ==
    IF B * O * A <= ExhaustiveCells
    THEN [1..B -> [1..O -> Rows(A, AnsVals)]]
    ELSE {[b \in 1..B |-> [o \in 1..O |-> [a \in 1..A |-> AnsValAt(s + b + 2 * o + a)]]]
          : s \in PatternSeeds}

---------------------------------------------------------------------------
(* State.                                                                  *)

VARIABLES
    combiner,   \* the combiner layer under test
    origin,     \* how it was made: the constructor's arguments, or "from_config"
    call,       \* the combiner's forward pass: its input and its outcome
    config,     \* the dictionary get_config last returned
    ctor,       \* the last classifier construction: its arguments and outcome
    model,      \* the classifier under test, NoModel when there is none
    pass        \* the classifier's forward pass: its inputs and its results

vars == <<combiner, origin, call, config, ctor, model, pass>>

combinerVars == <<combiner, origin, call, config>>

classifierVars == <<ctor, model, pass>>

NoCall == [status |-> "none"]

NoConfig == [none |-> TRUE]

NoPass == [status |-> "none"]

NoCtor == [kind |-> "none"]

Init ==
    /\ combiner = CombinerInit("memory_only", 1, "entailment_combiner", <<>>)
    /\ origin = [how |-> "new", encoding_dim |-> 1, name |-> "entailment_combiner",
                 trainable |-> TRUE]
    /\ call = NoCall
    /\ config = NoConfig
    /\ ctor = NoCtor
    /\ model = NoModel
    /\ pass = NoPass

\* MemoryOnlyCombiner(encoding_dim, name) or HeuristicMatchingCombiner(...)
NewCombiner ==
    /\ call = NoCall
    /\ \E kind \in CombinerKinds, d \in 1..MaxEncodingDim, name \in CombinerNames,
       kwargs \in CombinerKwargs :
        /\ combiner' = CombinerInit(kind, d, name, kwargs)
        /\ origin' = [how |-> "new", encoding_dim |-> d, name |-> name,
                      trainable |-> IF kwargs = <<>> THEN TRUE ELSE kwargs["trainable"]]
    /\ config' = NoConfig
    /\ UNCHANGED <<call, classifierVars>>

\* layer.call(x) on a (batch, width) input, the width anything up to one more
\* than the three encodings take; every single row of up to that width is tried
Call ==
    /\ call = NoCall
    /\ \E B \in 1..MaxBatch, W \in 1..(3 * combiner.encoding_dim + 1) :
        \E x \in Tensors2(B, W, B = 1 /\ W <= 3 * combiner.encoding_dim) :
            \E outcome \in CombinerCall(combiner, x) :
                call' = outcome @@ [x |-> x]
    /\ UNCHANGED <<combiner, origin, config, classifierVars>>

\* the forward pass is over
Forget ==
    /\ call # NoCall
    /\ call' = NoCall
    /\ UNCHANGED <<combiner, origin, config, classifierVars>>

\* config = layer.get_config()
TakeConfig ==
    /\ call = NoCall
    /\ config' = GetConfig(combiner)
    /\ UNCHANGED <<combiner, origin, call, classifierVars>>

\* layer = type(layer).from_config(config)
Restore ==
    /\ call = NoCall
    /\ config # NoConfig
    /\ combiner' = FromConfig(combiner.kind, config)
    /\ origin' = [origin EXCEPT !.how = "from_config"]
    /\ UNCHANGED <<call, config, classifierVars>>

NextCombiner == NewCombiner \/ Call \/ Forget \/ TakeConfig \/ Restore

SpecCombiner == Init /\ [][NextCombiner]_vars

\* model = entailment_models[kind](**kwargs)
NewClassifier ==
    /\ ctor = NoCtor
    /\ \E kind \in ClassifierKinds, kwargs \in KwargsSets, seed \in WeightSeeds :
        LET made == Construct(kind, kwargs, seed) IN
        /\ ctor' = [kind |-> kind, kwargs |-> kwargs, error |-> made.error,
                    key |-> made.key, init_layers_ran |-> made.init_layers_ran]
        /\ model' = made.object
    /\ UNCHANGED <<pass, combinerVars>>

\* 0 until the first pass has built the layers' weights, then the width of
\* the inputs they were built for
BuiltFor(m) == IF "input_dim" \in DOMAIN m THEN m.input_dim ELSE 0

Built(m, F) == IF "input_dim" \in DOMAIN m THEN m ELSE m @@ [input_dim |-> F]

WidthsFor(m) == IF BuiltFor(m) = 0 THEN 1..MaxDim ELSE {BuiltFor(m)}

\* model.classify(combined_input) of a TrueFalseEntailmentModel
ClassifyTrueFalse ==
    /\ model.kind = "true_false_mlp"
    /\ pass = NoPass
    /\ \E B \in 1..MaxBatch, F \in WidthsFor(model) :
        \E x \in Tensors2(B, F, B = 1) :
            /\ pass' = [status |-> "done", input |-> x]
                            @@ TrueFalseClassify(model, x)
            /\ model' = Built(model, F)
    /\ UNCHANGED <<ctor, combinerVars>>

\* model.classify(combined_input) of a MultipleChoiceEntailmentModel
ClassifyMultipleChoice ==
    /\ model.kind = "multiple_choice_mlp"
    /\ pass = NoPass
    /\ \E B \in 1..MaxBatch, O \in 1..MaxOptions, F \in WidthsFor(model) :
        \E x \in OptionTensors(B, O, F) :
            /\ pass' = [status |-> "done", input |-> x]
                            @@ MultipleChoiceClassify(model, x)
            /\ model' = Built(model, F)
    /\ UNCHANGED <<ctor, combinerVars>>

\* model.classify(combined_input, encoded_answers) of a
\* QuestionAnswerEntailmentModel, the answers of the model's answer_dim; the
\* combined input, which the answers are compared with only through the
\* projection, is drawn from the patterns
ClassifyQuestionAnswer ==
    /\ model.kind = "question_answer_mlp"
    /\ pass = NoPass
    /\ \E B \in 1..MaxBatch, O \in 1..MaxOptions, F \in WidthsFor(model) :
        \E x \in PatternTensors2(B, F), answers \in AnswerTensors(B, O, model.answer_dim) :
            /\ pass' = [status |-> "done", input |-> x, answers |-> answers]
                            @@ QuestionAnswerClassify(model, x, answers)
            /\ model' = Built(model, F)
    /\ UNCHANGED <<ctor, combinerVars>>

\* the forward pass is over
ForgetPass ==
    /\ pass # NoPass
    /\ pass' = NoPass
    /\ UNCHANGED <<ctor, model, combinerVars>>

\* del model: the next classifier is constructed from scratch
Discard ==
    /\ ctor # NoCtor
    /\ pass = NoPass
    /\ ctor' = NoCtor
    /\ model' = NoModel
    /\ UNCHANGED <<pass, combinerVars>>

NextClassifier ==
    \/ NewClassifier
    \/ Discard
    \/ ClassifyTrueFalse
    \/ ClassifyMultipleChoice
    \/ ClassifyQuestionAnswer
    \/ ForgetPass

SpecClassifier == Init /\ [][NextClassifier]_vars

---------------------------------------------------------------------------
(* The combiners' claims.                                                  *)

CallWidth == Len(call.x[1])

WidthFits == call # NoCall /\ CallWidth = 3 * combiner.encoding_dim

\* x with the cell (b, i) changed to the other input value
Flip(x, b, i) == [x EXCEPT ![b][i] = 1 - @]

\* C1: MemoryOnlyCombiner.call on an input of width 3*encoding_dim returns
\* exactly x[encoding_dim : 2*encoding_dim], of width encoding_dim, and
\* changing any cell of the sentence or knowledge slice leaves the output as
\* it is.
C1_MemoryOnlyReturnsMemory ==
    (combiner.kind = "memory_only" /\ WidthFits) =>
        LET d == combiner.encoding_dim IN
        /\ call.status = "returned"
        /\ call.out = [b \in 1..Len(call.x) |-> [j \in 1..d |-> call.x[b][d + j]]]
        /\ \A b \in 1..Len(call.x), i \in (1..d) \cup ((2 * d + 1)..(3 * d)) :
               MemoryOnlyCall(combiner, Flip(call.x, b, i)) = {Returned(call.out)}

C1_Witness ==
    /\ combiner.kind = "memory_only"
    /\ combiner.encoding_dim = 2
    /\ call # NoCall
    /\ call.x = <<(<<1, 1, 0, 1, 1, 0>>)>>
    /\ call.status = "returned"
    /\ call.out = <<(<<0, 1>>)>>

\* C2: HeuristicMatchingCombiner.call on an input of width 3*encoding_dim
\* with slices s, m, k returns [s, m, s*m, s-m], of width 4*encoding_dim,
\* whatever k is; encoding_dim 3 with s=[1,0,0], m=[0,1,0], k=[0,0,1] gives
\* [1,0,0, 0,1,0, 0,0,0, 1,-1,0].
C2_HeuristicConcatenation ==
    (combiner.kind = "heuristic_matching" /\ WidthFits) =>
        LET d == combiner.encoding_dim IN
        /\ call.status = "returned"
        /\ \A b \in 1..Len(call.x) :
               /\ Len(call.out[b]) = 4 * d
               /\ \A j \in 1..d :
                      /\ call.out[b][j] = call.x[b][j]
                      /\ call.out[b][d + j] = call.x[b][d + j]
                      /\ call.out[b][2 * d + j] = call.x[b][j] * call.x[b][d + j]
                      /\ call.out[b][3 * d + j] = call.x[b][j] - call.x[b][d + j]
               /\ (d = 3 /\ call.x[b] = <<1, 0, 0, 0, 1, 0, 0, 0, 1>>) =>
                      call.out[b] = <<1, 0, 0, 0, 1, 0, 0, 0, 0, 1, -1, 0>>
        /\ \A b \in 1..Len(call.x), i \in (2 * d + 1)..(3 * d) :
               HeuristicCall(combiner, Flip(call.x, b, i)) = {Returned(call.out)}

C2_Witness ==
    /\ combiner.kind = "heuristic_matching"
    /\ combiner.encoding_dim = 3
    /\ call # NoCall
    /\ call.x = <<(<<1, 0, 0, 0, 1, 0, 0, 0, 1>>)>>
    /\ call.status = "returned"
    /\ call.out = <<(<<1, 0, 0, 0, 1, 0, 0, 0, 0, 1, -1, 0>>)>>

\* C9: get_config() of either combiner holds 'encoding_dim' with the value
\* given at construction, beside the base layer's keys, and the combiner
\* made from it by from_config has the same encoding_dim and name and
\* returns an equal get_config().
C9_ConfigRoundTrip ==
    config # NoConfig =>
        /\ "encoding_dim" \in DOMAIN config
        /\ config["encoding_dim"] = origin.encoding_dim
        /\ config["name"] = origin.name
        /\ origin.how = "from_config" =>
               /\ combiner.encoding_dim = origin.encoding_dim
               /\ combiner.name = origin.name
               /\ combiner.trainable = origin.trainable
               /\ GetConfig(combiner) = config

C9_Witness ==
    /\ origin.how = "from_config"
    /\ combiner.kind = "heuristic_matching"
    /\ combiner.encoding_dim = 2
    /\ combiner.name = "my_combiner"
    /\ combiner.trainable = FALSE
    /\ config = [encoding_dim |-> 2, name |-> "my_combiner", trainable |-> FALSE]

\* C10: a call on an input whose width is not 3*encoding_dim ends in an
\* error, and whenever a call returns an output its width is the one
\* get_output_shape_for declares.
C10_ShapeMismatchIsError ==
    call # NoCall =>
        /\ CallWidth # 3 * combiner.encoding_dim => call.status = "raised"
        /\ call.status = "returned" =>
               \A b \in 1..Len(call.out) : Len(call.out[b]) = OutputWidthFor(combiner)

---------------------------------------------------------------------------
(* The classifiers' claims.                                                *)

PassOf(kind) == pass.status = "done" /\ model.kind = kind

\* a probability vector: no negative entry, and the entries sum to 1
IsDistribution(p) ==
    /\ \A i \in 1..Len(p.num) : p.num[i] >= 0
    /\ p.den > 0
    /\ SumSeq(p.num) = p.den

\* C3: the output of each of the three classifiers is, for every example, a
\* probability distribution over the classes or options: nonnegative entries
\* that sum to 1.
C3_OutputIsDistribution ==
    pass.status = "done" =>
        \A b \in 1..Len(pass.output) : IsDistribution(pass.output[b])

C3_Witness ==
    /\ PassOf("question_answer_mlp")
    /\ Len(pass.output) = 2
    /\ Len(pass.output[1].num) = 2
    /\ pass.scores[1][1] < pass.scores[1][2]
    /\ pass.output[1].num[1] < pass.output[1].num[2]
    /\ pass.output[1].num[1] + pass.output[1].num[2] = pass.output[1].den

\* C4: TrueFalseEntailmentModel.classify returns 2 entries per example,
\* whatever the input width and the number of hidden layers;
\* MultipleChoiceEntailmentModel.classify on (batch, options, features)
\* returns (batch, options); QuestionAnswerEntailmentModel.classify with
\* answers of shape (batch, options, answer_dim) returns (batch, options).
C4_OutputShape ==
    /\ PassOf("true_false_mlp") =>
           /\ Len(pass.output) = Len(pass.input)
           /\ \A b \in 1..Len(pass.output) : Len(pass.output[b].num) = 2
    /\ PassOf("multiple_choice_mlp") =>
           /\ Len(pass.output) = Len(pass.input)
           /\ \A b \in 1..Len(pass.output) :
                  Len(pass.output[b].num) = Len(pass.input[b])
    /\ PassOf("question_answer_mlp") =>
           /\ Len(pass.output) = Len(pass.answers)
           /\ \A b \in 1..Len(pass.output) :
                  Len(pass.output[b].num) = Len(pass.answers[b])

C4_Witness ==
    /\ PassOf("true_false_mlp")
    /\ model.num_hidden_layers = 0
    /\ Len(pass.input) = 2
    /\ Len(pass.input[1]) = 1
    /\ Len(pass.output) = 2
    /\ Len(pass.output[1].num) = 2

OptionPermutations(n) == {f \in [1..n -> 1..n] : \A i, j \in 1..n : f[i] = f[j] => i = j}

\* C5: MultipleChoiceEntailmentModel.classify scores every option with the
\* same layers and weights: the score of an option depends on its feature
\* vector alone, options of one example with equal features get equal
\* probability, and permuting the options of the input permutes the output
\* the same way.
C5_OptionsShareWeights ==
    PassOf("multiple_choice_mlp") =>
        LET x == pass.input
            O == Len(x[1])
        IN
        /\ \A b1, b2 \in 1..Len(x) : \A o1, o2 \in 1..O :
               x[b1][o1] = x[b2][o2] => pass.scores[b1][o1] = pass.scores[b2][o2]
        /\ \A b \in 1..Len(x) : \A o1, o2 \in 1..O :
               x[b][o1] = x[b][o2] => pass.output[b].num[o1] = pass.output[b].num[o2]
        /\ \A f \in OptionPermutations(O) :
               \A permuted \in {MultipleChoiceClassify(
                                    model, [b \in 1..Len(x) |-> [o \in 1..O |-> x[b][f[o]]]])} :
                   \A b \in 1..Len(x) :
                       /\ permuted.output[b].den = pass.output[b].den
                       /\ \A o \in 1..O :
                              permuted.output[b].num[o] = pass.output[b].num[f[o]]

C5_Witness ==
    /\ PassOf("multiple_choice_mlp")
    /\ Len(pass.input) = 2
    /\ Len(pass.input[1]) = 2
    /\ pass.input[1][1] = pass.input[1][2]
    /\ pass.input[2][1] # pass.input[2][2]
    /\ pass.output[1].num[1] = pass.output[1].num[2]
    /\ pass.output[2].num[1] # pass.output[2].num[2]

\* C6: in QuestionAnswerEntailmentModel.classify the score of option o of
\* example b that goes into the softmax is the dot product of the projected
\* input of example b with the answer encoding (b, o): _tile_projection puts
\* the projection of example b, unchanged, at every option of example b.
C6_SimilarityIsDotProduct ==
    PassOf("question_answer_mlp") =>
        \A b \in 1..Len(pass.answers) : \A o \in 1..Len(pass.answers[b]) :
            /\ _tile_projection(pass.answers, pass.projected)[b][o] = pass.projected[b]
            /\ pass.scores[b][o] = Dot(pass.projected[b], pass.answers[b][o])

C6_Witness ==
    /\ PassOf("question_answer_mlp")
    /\ Len(pass.answers) = 2
    /\ Len(pass.answers[1]) = 2
    /\ pass.projected[1] # pass.projected[2]
    /\ pass.answers[1][1] # pass.answers[1][2]
    /\ pass.scores[1][1] = Dot(pass.projected[1], pass.answers[1][1])
    /\ pass.scores[1] # pass.scores[2]

\* a = (c / d) * p for a scale c / d out of Scales
Scales == {<<c, d>> : c \in {-2, -1, 1, 2}, d \in {1, 2}}

ScaledCopy(a, p, scales) ==
    \E cd \in scales : \A i \in 1..Len(a) : cd[2] * a[i] = cd[1] * p[i]

Highest(b, o) ==
    \A o2 \in 1..Len(pass.answers[b]) :
        /\ pass.scores[b][o] >= pass.scores[b][o2]
        /\ pass.output[b].num[o] >= pass.output[b].num[o2]

\* C7, as claimed: an answer option whose encoding is a scaled copy of the
\* projected input has the highest score and probability of its example.
C7_ScaledCopyIsHighest ==
    PassOf("question_answer_mlp") =>
        \A b \in 1..Len(pass.answers) : \A o \in 1..Len(pass.answers[b]) :
            ScaledCopy(pass.answers[b][o], pass.projected[b], Scales) => Highest(b, o)

\* C7, amended: an answer option whose encoding is a copy of the projected
\* input scaled by a positive factor, and which no other option of the
\* example exceeds in Euclidean norm, has the highest score and probability
\* of its example (ties included).
C7_PositiveCopyOfLargestNormIsHighest ==
    PassOf("question_answer_mlp") =>
        \A b \in 1..Len(pass.answers) : \A o \in 1..Len(pass.answers[b]) :
            (/\ ScaledCopy(pass.answers[b][o], pass.projected[b],
                           {cd \in Scales : cd[1] > 0})
             /\ \A o2 \in 1..Len(pass.answers[b]) :
                    Dot(pass.answers[b][o2], pass.answers[b][o2])
                        <= Dot(pass.answers[b][o], pass.answers[b][o]))
            => Highest(b, o)

C7_Witness ==
    /\ PassOf("question_answer_mlp")
    /\ Len(pass.answers[1]) = 2
    /\ Len(pass.projected[1]) = 2
    /\ ScaledCopy(pass.answers[1][1], pass.projected[1], {cd \in Scales : cd[1] > 0})
    /\ pass.answers[1][2] # pass.answers[1][1]
    /\ Dot(pass.answers[1][2], pass.answers[1][2])
           <= Dot(pass.answers[1][1], pass.answers[1][1])
    /\ pass.scores[1][1] > pass.scores[1][2]
    /\ pass.output[1].num[1] > pass.output[1].num[2]

RequiredKeys(kind) ==
    IF kind = "question_answer_mlp" THEN ConfigKeys ELSE ConfigKeys \ {"answer_dim"}

\* C8: constructing a classifier without one of its required keys
\* (num_hidden_layers, hidden_layer_width, hidden_layer_activation, and
\* answer_dim for the question-answer classifier) raises, before
\* _init_layers has run, and leaves no classifier object.
C8_MissingKeyFailsConstruction ==
    (ctor # NoCtor /\ ~(RequiredKeys(ctor.kind) \subseteq DOMAIN ctor.kwargs)) =>
        /\ ctor.error \in {"KeyError", "TypeError"}
        /\ ~ctor.init_layers_ran
        /\ model = NoModel
        /\ pass = NoPass

C8_Witness ==
    /\ ctor # NoCtor
    /\ ctor.kind = "question_answer_mlp"
    /\ DOMAIN ctor.kwargs = ConfigKeys \ {"answer_dim"}
    /\ ctor.error = "KeyError"
    /\ ctor.key = "answer_dim"
    /\ model = NoModel

====
